---------------------------- MODULE Spec2Model ----------------------------
(***************************************************************************)
(* A model of main.py of flask-camera: the CameraService watchdog (lock    *)
(* file, process-liveness timer, shared-memory frame regions), its         *)
(* background launcher and the command-line entry point.                   *)
(*                                                                         *)
(* Every operating-system process is one element of Pids; its process      *)
(* identifier is the element itself.  A process is either the script run   *)
(* with a verb (argv) or a program that imports CameraService, constructs  *)
(* it with its own configuration and calls its methods.                    *)
(***************************************************************************)
EXTENDS Integers, Sequences, FiniteSets, TLC

(***************************************************************************)
(* Bounds of the model.                                                    *)
(***************************************************************************)
NumProcs == 2                \* operating-system processes
MaxTag == 2                  \* distinct frame contents a camera can deliver
MaxAbsentRun == 6            \* the count of consecutive absent ticks is kept up to this value

(***************************************************************************)
(* Program constants: the defaults of CameraService.__init__.              *)
(***************************************************************************)
DefaultCheckInterval == 2
DefaultAllowedMissing == 10
DefaultCameraIds == <<0, 1>>
DefaultFrameShape == <<480, 640, 3>>

Pids == 1..NumProcs
CameraIds == {0, 1}
FrameTags == 1..MaxTag

\* configurations a caller of CameraService(...) may pass
CheckIntervals == {DefaultCheckInterval, 3, 0, -1}
AllowedDurations == {DefaultAllowedMissing, 1, 0}
CameraLists == {DefaultCameraIds, <<0>>, << >>}

DefaultConfig ==
  [check_interval |-> DefaultCheckInterval,
   max_missing_time |-> DefaultAllowedMissing,
   camera_ids |-> DefaultCameraIds,
   frame_shape |-> DefaultFrameShape]

LoopConfigs ==
  [check_interval : CheckIntervals,
   max_missing_time : AllowedDurations,
   camera_ids : CameraLists,
   frame_shape : {DefaultFrameShape}]

\* shapes of the frames a camera delivers: the configured one, a smaller
\* colour frame, a grayscale (two-dimensional) frame
SourceShapes == {DefaultFrameShape, <<240, 320, 3>>, <<480, 640>>}
Frames == [shape : SourceShapes, tag : FrameTags]

\* what capture.read() can do: (True, frame), (False, None), or raise
ReadOutcomes ==
  [kind : {"ok"}, frame : Frames]
    \cup {[kind |-> k, frame |-> [shape |-> << >>, tag |-> 0]] : k \in {"fail", "raise"}}

(***************************************************************************)
(* Pure helpers.                                                           *)
(***************************************************************************)
RECURSIVE Prod(_)
\* np.prod(shape)
Prod(s) == IF s = << >> THEN 1 ELSE Head(s) * Prod(Tail(s))

Digit(n) == CASE n = 0 -> "0" [] n = 1 -> "1" [] n = 2 -> "2" [] n = 3 -> "3"
              [] n = 4 -> "4" [] n = 5 -> "5" [] n = 6 -> "6" [] n = 7 -> "7"
              [] n = 8 -> "8" [] n = 9 -> "9"

DigitChars == {"0", "1", "2", "3", "4", "5", "6", "7", "8", "9"}

DigitValue(c) == CHOOSE n \in 0..9 : Digit(n) = c

RECURSIVE ToStr(_)
\* str(n) for n >= 0: the decimal digits, most significant first
ToStr(n) == IF n < 10 THEN <<Digit(n)>> ELSE ToStr(n \div 10) \o <<Digit(n % 10)>>

RECURSIVE Strip(_)
\* str.strip() on the blank character
Strip(s) ==
  IF s = << >> THEN s
  ELSE IF Head(s) = " " THEN Strip(Tail(s))
  ELSE IF s[Len(s)] = " " THEN Strip(SubSeq(s, 1, Len(s) - 1))
  ELSE s

RECURSIVE DigitsValue(_)
DigitsValue(s) ==
  IF s = << >> THEN 0 ELSE DigitsValue(SubSeq(s, 1, Len(s) - 1)) * 10 + DigitValue(s[Len(s)])

\* int(text): [ok, val]; ok = FALSE stands for ValueError
ParseInt(text) ==
  LET t == Strip(text)
      signed == t # << >> /\ Head(t) \in {"-", "+"}
      d == IF signed THEN Tail(t) ELSE t
  IN IF d # << >> /\ \A i \in DOMAIN d : d[i] \in DigitChars
       THEN [ok |-> TRUE,
             val |-> IF signed /\ Head(t) = "-" THEN 0 - DigitsValue(d) ELSE DigitsValue(d)]
       ELSE [ok |-> FALSE, val |-> 0]

\* cv2.resize(frame, (width, height)): rows and columns are resampled, the
\* channel axis is kept as the source has it
Resize(frame, width, height) ==
  [shape |-> IF Len(frame.shape) >= 3
               THEN <<height, width>> \o SubSeq(frame.shape, 3, Len(frame.shape))
               ELSE <<height, width>>,
   tag |-> frame.tag]

\* numpy broadcasting of a source of shape src into target[:] of shape dst
Broadcastable(src, dst) ==
  /\ Len(src) <= Len(dst)
  /\ \A i \in 1..Len(src) :
       LET a == src[Len(src) + 1 - i]
           b == dst[Len(dst) + 1 - i]
       IN a = b \/ a = 1

(***************************************************************************)
(* State.                                                                  *)
(***************************************************************************)
VARIABLES
  pc,                     \* position of each process
  argv,                   \* how the process was started: a verb, "noargs", "import", or "off"
  cfg,                    \* the arguments of CameraService(...)
  elapsed_missing_time,   \* self.elapsed_missing_time
  video_captures,         \* self.video_captures
  shared_memory_blocks,   \* self.shared_memory_blocks (positionally self.shared_frame_arrays)
  local_capture,          \* the local variable capture of __init__ when its loop was left by an exception
  cause,                  \* why the call ended: the break, or the exception caught or in flight
  lockFile,               \* the file at lock_file_path
  shm,                    \* the system namespace of shared-memory regions, by camera id
  absentRun,              \* history: consecutive absent observations so far
  lastObs,                \* history: the last observation of the process list
  steps,                  \* history: the loop steps this call has performed
  lockWritten,            \* history: create_lock_file returned in this call
  lastRead,               \* history: what each capture.read() did in the last capture_camera_frames
  lastNorm,               \* history: the shape each frame had when it reached the slot assignment
  chk,                    \* history: what is_service_already_running saw and returned, and what the launch spawned
  cleanupLog,             \* history: the calls release_resources attempted in this process
  req                     \* the /lock request the api process is serving, and its last response

procVars == <<pc, argv, cfg, elapsed_missing_time, video_captures,
              shared_memory_blocks, local_capture, cause>>
histVars == <<absentRun, lastObs, steps, lockWritten, lastRead, lastNorm, chk,
              cleanupLog, req>>
vars == <<procVars, lockFile, shm, histVars>>

NoFile == [exists |-> FALSE, text |-> << >>]
FileOf(text) == [exists |-> TRUE, text |-> text]
NoRegion == [exists |-> FALSE, size |-> 0, owner |-> 0, data |-> 0]
NoCapture == [cam |-> -1, opened |-> FALSE, released |-> FALSE]
NoCheck == [done |-> FALSE, result |-> FALSE, lock |-> NoFile, ioerr |-> FALSE, live |-> {},
            spawned |-> 0]
NoLog == [ran |-> FALSE, release_tried |-> {}, close_tried |-> {}, unlink_tried |-> {},
          rm_tried |-> FALSE, rm_failed |-> FALSE]
NoResponse == [status |-> 0, lock_exists |-> FALSE, has_pid |-> FALSE, lock_pid |-> << >>]
NoRequest == [stage |-> "idle", first |-> FALSE, second |-> FALSE, response |-> NoResponse]

\* psutil.pid_exists(pid)
pid_exists(pid) == pid \in Pids /\ pc[pid] \notin {"off", "exited"}

\* inside the while loop of start_service_loop
Running(p) == pc[p] \in {"tick", "capture", "sleep"}


(***************************************************************************)
(* Initial state: no process started, no region, and whatever an earlier   *)
(* run or another program left at the lock path.                           *)
(***************************************************************************)
StalePid == NumProcs + 1

LeftoverLocks ==
  {NoFile, FileOf(<<"x">>), FileOf(ToStr(StalePid)), FileOf(<<" ">> \o ToStr(1))}

Init ==
  /\ pc = [p \in Pids |-> "off"]
  /\ argv = [p \in Pids |-> "off"]
  /\ cfg = [p \in Pids |-> DefaultConfig]
  /\ elapsed_missing_time = [p \in Pids |-> 0]
  /\ video_captures = [p \in Pids |-> << >>]
  /\ shared_memory_blocks = [p \in Pids |-> << >>]
  /\ local_capture = [p \in Pids |-> NoCapture]
  /\ cause = [p \in Pids |-> "none"]
  /\ lockFile \in LeftoverLocks
  /\ shm = [n \in CameraIds |-> NoRegion]
  /\ absentRun = [p \in Pids |-> 0]
  /\ lastObs = [p \in Pids |-> "none"]
  /\ steps = [p \in Pids |-> {}]
  /\ lockWritten = [p \in Pids |-> FALSE]
  /\ lastRead = [p \in Pids |-> << >>]
  /\ lastNorm = [p \in Pids |-> << >>]
  /\ chk = [p \in Pids |-> NoCheck]
  /\ cleanupLog = [p \in Pids |-> NoLog]
  /\ req = [p \in Pids |-> NoRequest]

(***************************************************************************)
(* Process start.                                                          *)
(***************************************************************************)
Verbs == {"run", "launch", "api", "bogus"}

\* a program imports the module and evaluates CameraService(**c)
StartImport(p, configs) ==
  /\ pc[p] = "off"
  /\ \E c \in configs :
       /\ cfg' = [cfg EXCEPT ![p] = c]
       /\ argv' = [argv EXCEPT ![p] = "import"]
       /\ pc' = [pc EXCEPT ![p] = "init"]
  /\ UNCHANGED <<elapsed_missing_time, video_captures, shared_memory_blocks,
                 local_capture, cause, lockFile, shm, histVars>>

\* python main.py <verb>: with no verb the usage text is printed and nothing is
\* constructed; with any verb CameraService() is constructed with its defaults
StartMain(p) ==
  /\ pc[p] = "off"
  /\ \E v \in Verbs \cup {"noargs"} :
       /\ argv' = [argv EXCEPT ![p] = v]
       /\ pc' = [pc EXCEPT ![p] = IF v = "noargs" THEN "done" ELSE "init"]
  /\ UNCHANGED <<cfg, elapsed_missing_time, video_captures, shared_memory_blocks,
                 local_capture, cause, lockFile, shm, histVars>>

(***************************************************************************)
(* CameraService.__init__: one camera per step.                            *)
(***************************************************************************)
\* mutant: the region is attached to when its name is taken
shm_create_attaches(region, allocFails) == allocFails

\* the request shared_memory.SharedMemory(create=True, name=...) raises when
\* the name is taken (FileExistsError) or the allocation fails (OSError)
shm_create_raises(region, allocFails) == region.exists \/ allocFails

InitCamera(p, faults) ==
  /\ pc[p] = "init"
  /\ Len(video_captures[p]) < Len(cfg[p].camera_ids)
  /\ \E opened \in {TRUE} \cup {~f : f \in faults}, allocFails \in faults :
       LET cam == cfg[p].camera_ids[Len(video_captures[p]) + 1]
           capture == [cam |-> cam, opened |-> opened, released |-> FALSE]
       IN IF shm_create_raises(shm[cam], allocFails)
            THEN /\ local_capture' = [local_capture EXCEPT ![p] = capture]
                 /\ cause' = [cause EXCEPT ![p] = "init_error"]
                 /\ pc' = [pc EXCEPT ![p] = "init_except"]
                 /\ UNCHANGED <<video_captures, shared_memory_blocks, shm>>
            ELSE /\ shm' = [shm EXCEPT ![cam] =
                              [exists |-> TRUE, size |-> Prod(cfg[p].frame_shape),
                               owner |-> p, data |-> 0]]
                 /\ video_captures' =
                      [video_captures EXCEPT ![p] = Append(@, capture)]
                 /\ shared_memory_blocks' =
                      [shared_memory_blocks EXCEPT ![p] =
                         Append(@, [name |-> cam, closed |-> FALSE])]
                 /\ UNCHANGED <<local_capture, cause, pc>>
  /\ UNCHANGED <<argv, cfg, elapsed_missing_time, lockFile, histVars>>

InitDone(p) ==
  /\ pc[p] = "init"
  /\ Len(video_captures[p]) = Len(cfg[p].camera_ids)
  /\ pc' = [pc EXCEPT ![p] = "ready"]
  /\ UNCHANGED <<argv, cfg, elapsed_missing_time, video_captures,
                 shared_memory_blocks, local_capture, cause, lockFile, shm, histVars>>

(***************************************************************************)
(* Lock file.                                                              *)
(***************************************************************************)
\* delete_lock_file: a missing file is passed over, any other failure of
\* os.remove is logged and the file stays
delete_lock_file(file, rmFails) ==
  IF ~file.exists THEN file
  ELSE IF rmFails THEN file
  ELSE NoFile

\* mutant: the missing file is not caught
delete_lock_file_raises_when_absent(file, rmFails) ==
  IF ~file.exists THEN TRUE
  ELSE IF rmFails THEN FALSE
  ELSE FALSE

\* whether delete_lock_file leaves with an exception: FileNotFoundError is
\* passed over (line 85), any other exception is logged (lines 87-88)
delete_lock_file_raises(file, rmFails) ==
  IF ~file.exists THEN FALSE
  ELSE IF rmFails THEN FALSE
  ELSE FALSE

\* mutant: the parsed identifier is not looked up among the live processes
is_service_already_running_unverified(file, ioerr, live) ==
  IF file.exists
    THEN IF ioerr THEN FALSE ELSE ParseInt(file.text).ok
    ELSE FALSE

\* is_service_already_running, on the file as found, with ioerr standing for
\* open/read raising and live for the set of existing process identifiers
is_service_already_running(file, ioerr, live) ==
  IF file.exists
    THEN IF ioerr THEN FALSE
         ELSE LET pid == ParseInt(file.text)
              IN IF ~pid.ok THEN FALSE
                 ELSE IF pid.val \in live THEN TRUE ELSE FALSE
    ELSE FALSE

(***************************************************************************)
(* release_resources: every capture is released, every block closed and    *)
(* then unlinked inside one try, then the lock file is deleted.            *)
(* capFail, closeFail and unlinkFail are the positions at which release(), *)
(* close() and unlink() raise.                                             *)
(***************************************************************************)
released_captures(caps, capFail) ==
  [i \in DOMAIN caps |->
     IF i \in capFail THEN caps[i] ELSE [caps[i] EXCEPT !.released = TRUE]]

closed_blocks(blocks, closeFail) ==
  [i \in DOMAIN blocks |->
     IF i \in closeFail THEN blocks[i] ELSE [blocks[i] EXCEPT !.closed = TRUE]]

\* unlink() is reached only when close() returned
unlinked_names(blocks, closeFail, unlinkFail) ==
  {blocks[i].name : i \in {j \in DOMAIN blocks : j \notin closeFail /\ j \notin unlinkFail}}

\* the positions at which unlink() is called
unlink_attempted(blocks, closeFail) == {j \in DOMAIN blocks : j \notin closeFail}

release_resources(p, capFail, closeFail, unlinkFail, rmFails) ==
  /\ video_captures' =
       [video_captures EXCEPT ![p] = released_captures(@, capFail)]
  /\ shared_memory_blocks' =
       [shared_memory_blocks EXCEPT ![p] = closed_blocks(@, closeFail)]
  /\ shm' = [n \in CameraIds |->
               IF n \in unlinked_names(shared_memory_blocks[p], closeFail, unlinkFail)
                 THEN NoRegion ELSE shm[n]]
  /\ lockFile' = delete_lock_file(lockFile, rmFails)
  /\ cleanupLog' =
       [cleanupLog EXCEPT ![p] =
          [ran |-> TRUE,
           release_tried |-> DOMAIN video_captures[p],
           close_tried |-> DOMAIN shared_memory_blocks[p],
           unlink_tried |-> unlink_attempted(shared_memory_blocks[p], closeFail),
           rm_tried |-> TRUE,
           rm_failed |-> rmFails /\ lockFile.exists]]

\* the positions of seq at which a call may raise
FailSets(seq, faults) == IF TRUE \in faults THEN SUBSET DOMAIN seq ELSE {{}}

\* release_resources under every choice of failing calls; the caller goes
\* on at "to" when release_resources returns
ReleaseChoice(p, faults, to) ==
  \E capFail \in FailSets(video_captures[p], faults),
     closeFail \in FailSets(shared_memory_blocks[p], faults),
     unlinkFail \in FailSets(shared_memory_blocks[p], faults),
     rmFails \in faults :
       /\ unlinkFail \cap closeFail = {}
       /\ release_resources(p, capFail, closeFail, unlinkFail, rmFails)
       /\ pc' = [pc EXCEPT ![p] =
                   IF delete_lock_file_raises(lockFile, rmFails) THEN "raised" ELSE to]

\* the except clause of __init__: log, release_resources(), re-raise
InitExcept(p, faults) ==
  /\ pc[p] = "init_except"
  /\ ReleaseChoice(p, faults, "raised")
  /\ UNCHANGED <<argv, cfg, elapsed_missing_time, local_capture, cause,
                 absentRun, lastObs, steps, lockWritten, lastRead, lastNorm, chk, req>>

(***************************************************************************)
(* start_service_loop.                                                     *)
(***************************************************************************)
\* mutant: the failed write is logged and not re-raised
create_lock_file_swallows(p, faults) ==
  /\ pc[p] = "ready"
  /\ argv[p] = "import"
  /\ \E writeFails \in faults :
       /\ IF writeFails
            THEN /\ cause' = [cause EXCEPT ![p] = "lock_write_error"]
                 /\ UNCHANGED <<lockFile, lockWritten>>
            ELSE /\ lockFile' = FileOf(ToStr(p))
                 /\ lockWritten' = [lockWritten EXCEPT ![p] = TRUE]
                 /\ UNCHANGED cause
       /\ pc' = [pc EXCEPT ![p] = "started"]
  /\ UNCHANGED <<argv, cfg, elapsed_missing_time, video_captures,
                 shared_memory_blocks, local_capture, shm,
                 absentRun, lastObs, steps, lastRead, lastNorm, chk, cleanupLog, req>>

\* line 115: create_lock_file() outside the try; a failed open/write is
\* logged and re-raised, and leaves start_service_loop
create_lock_file(p, faults) ==
  /\ pc[p] = "ready"
  /\ argv[p] = "import"
  /\ \E writeFails \in faults :
       IF writeFails
         THEN /\ pc' = [pc EXCEPT ![p] = "raised"]
              /\ cause' = [cause EXCEPT ![p] = "lock_write_error"]
              /\ UNCHANGED <<lockFile, lockWritten>>
         ELSE /\ lockFile' = FileOf(ToStr(p))
              /\ lockWritten' = [lockWritten EXCEPT ![p] = TRUE]
              /\ pc' = [pc EXCEPT ![p] = "started"]
              /\ UNCHANGED cause
  /\ UNCHANGED <<argv, cfg, elapsed_missing_time, video_captures,
                 shared_memory_blocks, local_capture, shm,
                 absentRun, lastObs, steps, lastRead, lastNorm, chk, cleanupLog, req>>

\* line 116 to line 119: the log line, then into the try and the loop
EnterLoop(p) ==
  /\ pc[p] = "started"
  /\ pc' = [pc EXCEPT ![p] = "tick"]
  /\ UNCHANGED <<argv, cfg, elapsed_missing_time, video_captures,
                 shared_memory_blocks, local_capture, cause, lockFile, shm, histVars>>

Observations == {"present", "absent", "error"}

\* mutant: a failed enumeration counts as the process being there
is_target_process_running_on_error(obs) == obs # "absent"

\* is_target_process_running: obs is what psutil.process_iter does, a list
\* holding the name ("present"), one without it ("absent"), or an exception
is_target_process_running(obs) ==
  IF obs = "error" THEN FALSE ELSE obs = "present"

\* mutant: an absent observation sets the timer instead of adding to it
next_elapsed_no_accumulate(elapsed, interval, running) ==
  IF running THEN 0 ELSE interval

\* mutant: a present observation does not reset the timer
next_elapsed_no_reset(elapsed, interval, running) ==
  IF running THEN elapsed ELSE elapsed + interval

\* lines 120-124
next_elapsed(elapsed, interval, running) ==
  IF running THEN 0 ELSE elapsed + interval

\* mutant: the comparison with the limit is strict
loop_breaks_strict(elapsed, limit, running) ==
  IF running THEN FALSE ELSE elapsed > limit

\* lines 123-130: the break is inside the else branch
loop_breaks(elapsed, limit, running) ==
  IF running THEN FALSE ELSE elapsed >= limit

\* mutant: the loop goes on to the capture also when the limit is reached
after_check_no_break(breaks) == "capture"

\* lines 128-133: break leaves the while loop for the finally clause, before
\* capture_camera_frames and time.sleep of that iteration
after_check(breaks) == IF breaks THEN "cleanup" ELSE "capture"

\* lines 120-130: one evaluation of the process check and of the grace limit
Tick(p, observations) ==
  /\ pc[p] = "tick"
  /\ \E obs \in observations :
       LET running == is_target_process_running(obs)
           e == next_elapsed(elapsed_missing_time[p], cfg[p].check_interval, running)
       IN /\ elapsed_missing_time' = [elapsed_missing_time EXCEPT ![p] = e]
          /\ pc' = [pc EXCEPT ![p] =
                      after_check(loop_breaks(e, cfg[p].max_missing_time, running))]
          /\ cause' = [cause EXCEPT ![p] =
                         IF loop_breaks(e, cfg[p].max_missing_time, running)
                           THEN "grace" ELSE @]
          /\ absentRun' = [absentRun EXCEPT ![p] =
                               IF obs = "present" THEN 0
                               ELSE IF @ < MaxAbsentRun THEN @ + 1 ELSE @]
          /\ lastObs' = [lastObs EXCEPT ![p] = obs]
          /\ steps' = [steps EXCEPT ![p] = @ \cup {"query"}]
  /\ UNCHANGED <<argv, cfg, video_captures, shared_memory_blocks, local_capture,
                 lockFile, shm, lockWritten, lastRead, lastNorm, chk, cleanupLog, req>>

\* lines 107-108
normalise(frame, frame_shape) ==
  IF frame.shape # frame_shape
    THEN Resize(frame, frame_shape[2], frame_shape[1])
    ELSE frame

\* mutant: a read that gave no frame blanks the slot
slot_after_blanks(data, outcome, frame_shape) ==
  IF outcome.kind = "ok"
    THEN LET frame == normalise(outcome.frame, frame_shape)
         IN IF Broadcastable(frame.shape, frame_shape) THEN frame.tag ELSE data
    ELSE 0

\* lines 101-112 for one camera: the new content of its slot
slot_after(data, outcome, frame_shape) ==
  IF outcome.kind = "ok"
    THEN LET frame == normalise(outcome.frame, frame_shape)
         IN IF Broadcastable(frame.shape, frame_shape)
              THEN frame.tag      \* shared_frame_arrays[index][:] = frame
              ELSE data           \* ValueError, caught and logged
    ELSE data                     \* continue, or the exception caught and logged

\* capture_camera_frames; a capture that is not opened reads (False, None)
capture_camera_frames(p, outs) ==
  /\ shm' = [n \in CameraIds |->
               IF \E i \in DOMAIN video_captures[p] : video_captures[p][i].cam = n
                 THEN LET i == CHOOSE j \in DOMAIN video_captures[p] :
                                   video_captures[p][j].cam = n
                      IN [shm[n] EXCEPT !.data =
                            slot_after(@, outs[i], cfg[p].frame_shape)]
                 ELSE shm[n]]
  /\ lastRead' = [lastRead EXCEPT ![p] = outs]
  /\ lastNorm' = [lastNorm EXCEPT ![p] =
                    [i \in DOMAIN outs |->
                       IF outs[i].kind = "ok"
                         THEN normalise(outs[i].frame, cfg[p].frame_shape).shape
                         ELSE << >>]]

Capture(p, outcomes) ==
  /\ pc[p] = "capture"
  /\ \E outs \in [DOMAIN video_captures[p] -> outcomes] :
       /\ \A i \in DOMAIN outs : ~video_captures[p][i].opened => outs[i].kind = "fail"
       /\ capture_camera_frames(p, outs)
  /\ pc' = [pc EXCEPT ![p] = "sleep"]
  /\ steps' = [steps EXCEPT ![p] = @ \cup {"capture"}]
  /\ UNCHANGED <<argv, cfg, elapsed_missing_time, video_captures,
                 shared_memory_blocks, local_capture, cause, lockFile,
                 absentRun, lastObs, lockWritten, chk, cleanupLog, req>>

\* time.sleep(seconds) raises ValueError for a negative argument
sleep_raises(seconds) == seconds < 0

\* line 133, and lines 136-137 when it raises
Sleep(p) ==
  /\ pc[p] = "sleep"
  /\ IF sleep_raises(cfg[p].check_interval)
       THEN /\ pc' = [pc EXCEPT ![p] = "cleanup"]
            /\ cause' = [cause EXCEPT ![p] = "fault"]
       ELSE /\ pc' = [pc EXCEPT ![p] = "tick"]
            /\ UNCHANGED cause
  /\ steps' = [steps EXCEPT ![p] = @ \cup {"sleep"}]
  /\ lastRead' = [lastRead EXCEPT ![p] = << >>]
  /\ lastNorm' = [lastNorm EXCEPT ![p] = << >>]
  /\ UNCHANGED <<argv, cfg, elapsed_missing_time, video_captures,
                 shared_memory_blocks, local_capture, lockFile, shm,
                 absentRun, lastObs, lockWritten, chk, cleanupLog, req>>

\* where a KeyboardInterrupt raised at position at is handled: inside the try
\* (lines 119-133) by the except clause of line 134, at line 116 by nobody
interrupt_target(at) ==
  IF at \in {"tick", "capture", "sleep"} THEN "cleanup" ELSE "raised"

\* the operator's Ctrl-C, delivered between two steps of start_service_loop
Interrupt(p) ==
  /\ pc[p] \in {"started", "tick", "capture", "sleep"}
  /\ pc' = [pc EXCEPT ![p] = interrupt_target(pc[p])]
  /\ cause' = [cause EXCEPT ![p] = "interrupt"]
  /\ lastRead' = [lastRead EXCEPT ![p] = << >>]
  /\ lastNorm' = [lastNorm EXCEPT ![p] = << >>]
  /\ UNCHANGED <<argv, cfg, elapsed_missing_time, video_captures,
                 shared_memory_blocks, local_capture, lockFile, shm,
                 absentRun, lastObs, steps, lockWritten, chk, cleanupLog, req>>

\* the finally clause, line 139; start_service_loop then returns
Cleanup(p, faults) ==
  /\ pc[p] = "cleanup"
  /\ ReleaseChoice(p, faults, "done")
  /\ UNCHANGED <<argv, cfg, elapsed_missing_time, local_capture, cause,
                 absentRun, lastObs, steps, lockWritten, lastRead, lastNorm, chk, req>>

(***************************************************************************)
(* launch_as_background_process.                                           *)
(***************************************************************************)
LivePids == {q \in Pids : pid_exists(q)}

\* mutant: the result of the check is not acted upon
LaunchCheck_always_spawns(p) ==
  /\ pc[p] = "ready"
  /\ argv[p] = "import"
  /\ \E ioerr \in BOOLEAN :
       LET r == is_service_already_running(lockFile, ioerr, LivePids)
       IN /\ chk' = [chk EXCEPT ![p] =
                       [done |-> TRUE, result |-> r, lock |-> lockFile,
                        ioerr |-> ioerr /\ lockFile.exists, live |-> LivePids,
                        spawned |-> 0]]
          /\ pc' = [pc EXCEPT ![p] = "spawn"]
  /\ UNCHANGED <<argv, cfg, elapsed_missing_time, video_captures,
                 shared_memory_blocks, local_capture, cause, lockFile, shm,
                 absentRun, lastObs, steps, lockWritten, lastRead, lastNorm,
                 cleanupLog, req>>

\* lines 158-160: the check, and the early return when it is true
LaunchCheck(p) ==
  /\ pc[p] = "ready"
  /\ argv[p] = "import"
  /\ \E ioerr \in BOOLEAN :
       LET r == is_service_already_running(lockFile, ioerr, LivePids)
       IN /\ chk' = [chk EXCEPT ![p] =
                       [done |-> TRUE, result |-> r, lock |-> lockFile,
                        ioerr |-> ioerr /\ lockFile.exists, live |-> LivePids,
                        spawned |-> 0]]
          /\ pc' = [pc EXCEPT ![p] = IF r THEN "done" ELSE "spawn"]
  /\ UNCHANGED <<argv, cfg, elapsed_missing_time, video_captures,
                 shared_memory_blocks, local_capture, cause, lockFile, shm,
                 absentRun, lastObs, steps, lockWritten, lastRead, lastNorm,
                 cleanupLog, req>>

\* lines 162-175: Popen([python, main.py, "run"]) starts a detached process,
\* or raises, which is logged; either way the call returns
LaunchSpawn(p) ==
  /\ pc[p] = "spawn"
  /\ \/ \E q \in Pids :
          /\ pc[q] = "off"
          /\ pc' = [pc EXCEPT ![p] = "done", ![q] = "init"]
          /\ argv' = [argv EXCEPT ![q] = "run"]
          /\ chk' = [chk EXCEPT ![p].spawned = @ + 1]
     \/ /\ pc' = [pc EXCEPT ![p] = "done"]
        /\ UNCHANGED <<argv, chk>>
  /\ UNCHANGED <<cfg, elapsed_missing_time, video_captures,
                 shared_memory_blocks, local_capture, cause, lockFile, shm,
                 absentRun, lastObs, steps, lockWritten, lastRead, lastNorm,
                 cleanupLog, req>>

(***************************************************************************)
(* The entry point, lines 208-230.                                         *)
(***************************************************************************)
\* the methods CameraService defines
Methods == {"is_service_already_running", "create_lock_file", "delete_lock_file",
            "is_target_process_running", "capture_camera_frames",
            "start_service_loop", "release_resources", "launch_as_background_process"}

\* the attribute each verb looks up on the service object (lines 214, 217)
verb_method(v) ==
  CASE v = "run" -> "run_service_loop"
    [] v = "launch" -> "launch_background"

\* service.<name>: the lookup raises AttributeError for a name the class
\* does not define
lookup_raises(name) == name \notin Methods

\* lines 213-224; neither name looked up for "run" and "launch" is a method of
\* CameraService, so the lookup raises and the process ends with the error
Dispatch(p) ==
  /\ pc[p] = "ready"
  /\ argv[p] \in Verbs
  /\ IF argv[p] \in {"run", "launch"}
       THEN /\ lookup_raises(verb_method(argv[p]))
            /\ pc' = [pc EXCEPT ![p] = "raised"]
            /\ cause' = [cause EXCEPT ![p] = "AttributeError"]
       ELSE /\ pc' = [pc EXCEPT ![p] = IF argv[p] = "api" THEN "serving" ELSE "done"]
            /\ UNCHANGED cause
  /\ UNCHANGED <<argv, cfg, elapsed_missing_time, video_captures,
                 shared_memory_blocks, local_capture, lockFile, shm, histVars>>

(***************************************************************************)
(* The /lock handler of create_api_server, lines 197-202. The dictionary   *)
(* display evaluates os.path.exists for "lock_exists", then os.path.exists *)
(* again as the condition of "lock_pid", then open(lock_file).read(): three*)
(* separate looks at the file, between which other processes may run.      *)
(***************************************************************************)
\* line 200: the value of "lock_exists"
LockExistsFirst(p) ==
  /\ pc[p] = "serving"
  /\ req[p].stage = "idle"
  /\ req' = [req EXCEPT ![p] =
              [stage |-> "first", first |-> lockFile.exists, second |-> FALSE,
               response |-> NoResponse]]
  /\ UNCHANGED <<procVars, lockFile, shm, absentRun, lastObs, steps, lockWritten,
                 lastRead, lastNorm, chk, cleanupLog>>

\* line 201: the condition of the conditional expression
LockExistsSecond(p) ==
  /\ pc[p] = "serving"
  /\ req[p].stage = "first"
  /\ req' = [req EXCEPT ![p].stage = "second", ![p].second = lockFile.exists]
  /\ UNCHANGED <<procVars, lockFile, shm, absentRun, lastObs, steps, lockWritten,
                 lastRead, lastNorm, chk, cleanupLog>>

\* line 201: open(lock_file).read() when the condition was true, None
\* otherwise; an exception of open or read is not caught in the handler and
\* the request is answered with status 500
lock_response(first, second, file, ioerr) ==
  IF ~second
    THEN [status |-> 200, lock_exists |-> first, has_pid |-> FALSE, lock_pid |-> << >>]
    ELSE IF ~file.exists \/ ioerr
           THEN [status |-> 500, lock_exists |-> FALSE, has_pid |-> FALSE, lock_pid |-> << >>]
           ELSE [status |-> 200, lock_exists |-> first, has_pid |-> TRUE,
                 lock_pid |-> file.text]

LockRespond(p, faults) ==
  /\ pc[p] = "serving"
  /\ req[p].stage = "second"
  /\ \E ioerr \in faults :
       req' = [req EXCEPT ![p] =
                 [stage |-> "idle", first |-> FALSE, second |-> FALSE,
                  response |-> lock_response(req[p].first, req[p].second, lockFile, ioerr)]]
  /\ UNCHANGED <<procVars, lockFile, shm, absentRun, lastObs, steps, lockWritten,
                 lastRead, lastNorm, chk, cleanupLog>>

\* the process ends and its objects with it; what it never unlinked is
\* either reclaimed by the platform or stays in the namespace
Exit(p) ==
  /\ pc[p] \in {"done", "raised"}
  /\ pc' = [pc EXCEPT ![p] = "exited"]
  /\ \E reclaim \in BOOLEAN :
       shm' = [n \in CameraIds |->
                 IF reclaim /\ shm[n].exists /\ shm[n].owner = p THEN NoRegion ELSE shm[n]]
  /\ argv' = [argv EXCEPT ![p] = "off"]
  /\ cfg' = [cfg EXCEPT ![p] = DefaultConfig]
  /\ elapsed_missing_time' = [elapsed_missing_time EXCEPT ![p] = 0]
  /\ video_captures' = [video_captures EXCEPT ![p] = << >>]
  /\ shared_memory_blocks' = [shared_memory_blocks EXCEPT ![p] = << >>]
  /\ local_capture' = [local_capture EXCEPT ![p] = NoCapture]
  /\ cause' = [cause EXCEPT ![p] = "none"]
  /\ absentRun' = [absentRun EXCEPT ![p] = 0]
  /\ lastObs' = [lastObs EXCEPT ![p] = "none"]
  /\ steps' = [steps EXCEPT ![p] = {}]
  /\ lockWritten' = [lockWritten EXCEPT ![p] = FALSE]
  /\ lastRead' = [lastRead EXCEPT ![p] = << >>]
  /\ lastNorm' = [lastNorm EXCEPT ![p] = << >>]
  /\ chk' = [chk EXCEPT ![p] = NoCheck]
  /\ cleanupLog' = [cleanupLog EXCEPT ![p] = NoLog]
  /\ req' = [req EXCEPT ![p] = NoRequest]
  /\ UNCHANGED lockFile

(***************************************************************************)
(* Specifications.                                                         *)
(***************************************************************************)
\* one program that constructs CameraService with any configuration and
\* calls start_service_loop
Next ==
  \E p \in {1} :
    \/ StartImport(p, LoopConfigs)
    \/ InitCamera(p, BOOLEAN)
    \/ InitDone(p)
    \/ InitExcept(p, BOOLEAN)
    \/ create_lock_file(p, BOOLEAN)
    \/ EnterLoop(p)
    \/ Tick(p, Observations)
    \/ Capture(p, ReadOutcomes)
    \/ Sleep(p)
    \/ Interrupt(p)
    \/ Cleanup(p, BOOLEAN)

Spec == Init /\ [][Next]_vars

\* the same program under the scheduling the platform gives it: a process
\* that can execute its next statement does so, and the calls it makes
\* (process enumeration, read, sleep, release, remove) return
SpecLive ==
  /\ Init
  /\ [][Next]_vars
  /\ WF_vars(EnterLoop(1))
  /\ WF_vars(Tick(1, Observations))
  /\ WF_vars(Capture(1, ReadOutcomes))
  /\ WF_vars(Sleep(1))
  /\ WF_vars(Cleanup(1, BOOLEAN))

\* configurations of the programs that run side by side
MultiConfigs ==
  [check_interval : {DefaultCheckInterval},
   max_missing_time : {1},
   camera_ids : {<< >>, <<0>>},
   frame_shape : {DefaultFrameShape}]

\* there the operating-system calls of construction, locking and cleanup
\* succeed, the process list can be enumerated, and a read delivers a frame
\* of the configured shape or none
NoFaults == {FALSE}
PlainObservations == {"present", "absent"}
PlainOutcomes ==
  {r \in ReadOutcomes :
     r.kind = "fail" \/ (r.kind = "ok" /\ r.frame = [shape |-> DefaultFrameShape, tag |-> 1])}

\* several processes on one lock file path: scripts started with a verb,
\* programs calling start_service_loop or launch_as_background_process, and
\* the instances the launcher spawns
NextMulti ==
  \E p \in Pids :
    \/ StartMain(p)
    \/ StartImport(p, MultiConfigs)
    \/ InitCamera(p, NoFaults)
    \/ InitDone(p)
    \/ InitExcept(p, NoFaults)
    \/ Dispatch(p)
    \/ create_lock_file(p, NoFaults)
    \/ EnterLoop(p)
    \/ Tick(p, PlainObservations)
    \/ Capture(p, PlainOutcomes)
    \/ Sleep(p)
    \/ Interrupt(p)
    \/ Cleanup(p, NoFaults)
    \/ LaunchCheck(p)
    \/ LaunchSpawn(p)
    \/ Exit(p)

SpecMulti == Init /\ [][NextMulti]_vars

\* watchdogs without a camera, which the regions of the status server's own
\* CameraService() cannot keep from starting
NoCameraConfigs == {c \in MultiConfigs : c.camera_ids = << >>}

\* the status server, process 1 started as a script, next to programs that
\* run the watchdog on the same lock file path
NextApi ==
  \E p \in Pids :
    \/ p = 1 /\ StartMain(p)
    \/ p # 1 /\ StartImport(p, NoCameraConfigs)
    \/ InitCamera(p, NoFaults)
    \/ InitDone(p)
    \/ Dispatch(p)
    \/ create_lock_file(p, NoFaults)
    \/ EnterLoop(p)
    \/ Tick(p, PlainObservations)
    \/ Capture(p, PlainOutcomes)
    \/ Sleep(p)
    \/ Interrupt(p)
    \/ Cleanup(p, NoFaults)
    \/ LockExistsFirst(p)
    \/ LockExistsSecond(p)
    \/ LockRespond(p, NoFaults)
    \/ Exit(p)

SpecApi == Init /\ [][NextApi]_vars

(***************************************************************************)
(* Properties.                                                             *)
(***************************************************************************)
\* the call of start_service_loop, or the constructor, has ended
Finished(p) == pc[p] \in {"done", "raised"}

\* every block this instance created is closed and its name is gone
RegionsReleased(p) ==
  \A i \in DOMAIN shared_memory_blocks[p] :
    /\ shared_memory_blocks[p][i].closed
    /\ ~shm[shared_memory_blocks[p][i].name].exists

\* C1: once start_service_loop has got past create_lock_file, then however it
\* ends (grace exceeded, KeyboardInterrupt at any point after the lock was
\* written, any other exception), when it has finished the lock file does not
\* exist and every region of this instance is closed and unlinked.
C1_CleanupOnEveryExit ==
  \A p \in Pids :
    (lockWritten[p] /\ Finished(p)) => (~lockFile.exists /\ RegionsReleased(p))

\* a step of p that is the tick's process check (and not an interrupt)
TickStep(p) == pc[p] = "tick" /\ pc'[p] # "tick" /\ cause'[p] # "interrupt"

\* C2: a tick sets elapsed_missing_time to 0 when the process is observed
\* present and to its previous value plus check_interval when it is observed
\* absent, a failed enumeration counting as absent; no other step changes it.
C2_TimerUpdate ==
  [][\A p \in Pids :
       IF TickStep(p)
         THEN \/ /\ lastObs'[p] = "present"
                 /\ elapsed_missing_time'[p] = 0
              \/ /\ lastObs'[p] \in {"absent", "error"}
                 /\ elapsed_missing_time'[p] =
                      elapsed_missing_time[p] + cfg[p].check_interval
         ELSE elapsed_missing_time'[p] = elapsed_missing_time[p]]_vars

\* C2 witness: a failed enumeration has just counted as a second absent tick
C2_Witness ==
  \E p \in Pids :
    /\ pc[p] = "capture"
    /\ lastObs[p] = "error"
    /\ cfg[p].check_interval > 0
    /\ elapsed_missing_time[p] = 2 * cfg[p].check_interval

\* C3 as stated: 0 <= elapsed_missing_time always, and a tick continues to
\* capture and sleep only with elapsed_missing_time < allowed_missing_duration
\* and stops only with elapsed_missing_time >= allowed_missing_duration.
C3_Original ==
  \A p \in Pids :
    /\ 0 <= elapsed_missing_time[p]
    /\ pc[p] \in {"capture", "sleep"} =>
         elapsed_missing_time[p] < cfg[p].max_missing_time
    /\ cause[p] = "grace" =>
         elapsed_missing_time[p] >= cfg[p].max_missing_time

\* C3 amended: with check_interval >= 0, 0 <= elapsed_missing_time always; the
\* limit is compared only on a tick that observed the process absent: such a
\* tick stops exactly when elapsed_missing_time >= allowed_missing_duration,
\* and a tick that observed it present always continues.
C3_StopRule ==
  \A p \in Pids :
    /\ cfg[p].check_interval >= 0 => 0 <= elapsed_missing_time[p]
    /\ pc[p] \in {"capture", "sleep"} =>
         \/ lastObs[p] = "present"
         \/ elapsed_missing_time[p] < cfg[p].max_missing_time
    /\ cause[p] = "grace" =>
         /\ lastObs[p] \in {"absent", "error"}
         /\ elapsed_missing_time[p] >= cfg[p].max_missing_time

\* C3 witness: a present tick goes on to capture although 0 >= the limit
C3_Witness ==
  \E p \in Pids :
    /\ pc[p] = "capture"
    /\ lastObs[p] = "present"
    /\ elapsed_missing_time[p] >= cfg[p].max_missing_time

CeilDiv(a, b) == (a + b - 1) \div b

\* C6: with check_interval c > 0 and allowed_missing_duration g > 0 the loop
\* stops on the grace path at the tick completing exactly ceil(g/c) consecutive
\* absent observations and at no earlier one; a present observation restarts
\* the count.
C6_GraceTicks ==
  \A p \in Pids :
    (cfg[p].check_interval > 0 /\ cfg[p].max_missing_time > 0) =>
      LET n == CeilDiv(cfg[p].max_missing_time, cfg[p].check_interval)
      IN /\ cause[p] = "grace" => absentRun[p] = n
         /\ (Running(p) \/ cause[p] \in {"interrupt", "fault"}) => absentRun[p] < n

\* C6 witness: c = 2, g = 10 stopped by the fifth consecutive absent tick
C6_Witness ==
  \E p \in Pids :
    /\ cause[p] = "grace"
    /\ cfg[p].check_interval = 2
    /\ cfg[p].max_missing_time = 10
    /\ absentRun[p] = 5

\* a step of p that is capture_camera_frames
CaptureStep(p) == pc[p] = "capture" /\ pc'[p] = "sleep"

\* a colour frame with the configured number of channels
SameChannels(frame, frame_shape) ==
  Len(frame.shape) = 3 /\ frame.shape[3] = frame_shape[3]

\* C8: a camera whose read reports failure or raises (a camera that did not
\* open does so on every tick) keeps its slot as it was, the other cameras of
\* the tick are still written, the loop goes on and elapsed_missing_time is
\* not changed.
C8_FailedReadSkipsOnlyThatCamera ==
  [][\A p \in Pids :
       /\ CaptureStep(p) =>
            /\ \A i \in DOMAIN video_captures[p] :
                 LET n == video_captures[p][i].cam
                     r == lastRead'[p][i]
                 IN /\ ~video_captures[p][i].opened => r.kind = "fail"
                    /\ r.kind # "ok" => shm'[n] = shm[n]
                    /\ (r.kind = "ok" /\ SameChannels(r.frame, cfg[p].frame_shape)) =>
                         shm'[n].data = r.frame.tag
            /\ elapsed_missing_time'[p] = elapsed_missing_time[p]
       /\ (pc[p] = "capture" /\ cause'[p] = cause[p]) =>
            pc'[p] \in {"capture", "sleep"}]_vars

\* C8 witness: the first camera's read raised and left its earlier frame in
\* place while the second camera's frame was written
C8_Witness ==
  \E p \in Pids :
    /\ pc[p] = "sleep"
    /\ Len(lastRead[p]) = 2
    /\ lastRead[p][1].kind = "raise"
    /\ lastRead[p][2].kind = "ok"
    /\ shm[video_captures[p][1].cam].data = 1
    /\ shm[video_captures[p][2].cam].data = 2
    /\ lastRead[p][2].frame.tag = 2

\* C9: every frame a camera returns, whatever its height, width and channels,
\* has the configured shape when it is written, and every slot's region keeps
\* the size height*width*channels of the configured shape.
C9_FrameNormalised ==
  \A p \in Pids :
    /\ \A i \in DOMAIN lastNorm[p] :
         lastRead[p][i].kind = "ok" => lastNorm[p][i] = cfg[p].frame_shape
    /\ \A i \in DOMAIN shared_memory_blocks[p] :
         LET r == shm[shared_memory_blocks[p][i].name]
         IN (r.exists /\ r.owner = p) =>
              r.size = cfg[p].frame_shape[1] * cfg[p].frame_shape[2] * cfg[p].frame_shape[3]

\* C10: when create_lock_file fails the failure leaves start_service_loop and
\* the loop is never entered: no process query, no capture, no sleep.
C10_LockFailureIsFatal ==
  \A p \in Pids :
    cause[p] = "lock_write_error" =>
      /\ pc[p] \in {"raised", "exited"}
      /\ steps[p] = {}
      /\ ~lockWritten[p]

\* C10 witness: the write of the lock file failed
C10_Witness ==
  \E p \in Pids : cause[p] = "lock_write_error" /\ pc[p] = "raised"

\* the two instances are configured with a common camera id
SharesCamera(p, q) ==
  \E i \in DOMAIN cfg[p].camera_ids, j \in DOMAIN cfg[q].camera_ids :
    cfg[p].camera_ids[i] = cfg[q].camera_ids[j]

\* C4 as stated: of the processes using one lock file path at most one is
\* inside the loop of start_service_loop at any time.
C4_Original ==
  \A p \in Pids, q \in Pids : (Running(p) /\ Running(q)) => p = q

\* C4 amended: two instances configured with a common camera id are never
\* inside the loop at the same time (the second cannot create the frame
\* region the first still holds); the lock file excludes nobody.
C4_SharedCameraExcludes ==
  \A p \in Pids, q \in Pids :
    (p # q /\ Running(p) /\ Running(q)) => ~SharesCamera(p, q)

\* C4 witness: while one instance is inside the loop, the construction of a
\* second one with the same camera has failed
C4_Witness ==
  \E p \in Pids, q \in Pids :
    /\ p # q
    /\ Running(p)
    /\ argv[q] = "import"
    /\ SharesCamera(p, q)
    /\ pc[q] = "raised"
    /\ cause[q] = "init_error"

\* a step in which p evaluates is_service_already_running
CheckStep(p) == ~chk[p].done /\ chk'[p].done

\* C5: is_service_already_running returns True exactly when the lock file
\* exists, can be read, holds text that parses as an integer, and that integer
\* names a live process; otherwise it returns False without raising; it never
\* changes the lock file.
C5_AlreadyRunningIffLiveLock ==
  /\ [](\A p \in Pids :
          chk[p].done =>
            (chk[p].result <=>
               /\ chk[p].lock.exists
               /\ ~chk[p].ioerr
               /\ ParseInt(chk[p].lock.text).ok
               /\ \E q \in chk[p].live : ParseInt(chk[p].lock.text).val = q))
  /\ [][\A p \in Pids : CheckStep(p) => lockFile' = lockFile]_vars

\* C5 witness: the check answered True for a lock written by an instance
\* that is inside its loop
C5_Witness ==
  \E p \in Pids, q \in Pids :
    /\ p # q
    /\ chk[p].done
    /\ chk[p].result
    /\ chk[p].lock = FileOf(ToStr(q))
    /\ Running(q)

\* C7: the verbs run and launch reach their operation: neither ends in an
\* unhandled error before the watchdog loop is entered or the launch is
\* performed.
C7_VerbsReachOperation ==
  \A p \in Pids :
    argv[p] \in {"run", "launch"} =>
      ~(pc[p] = "raised" /\ cause[p] = "AttributeError")


\* the constructor has re-raised the failure of a shared-memory allocation
InitFailed(p) == pc[p] = "raised" /\ cause[p] = "init_error"

\* C11: when the allocation of the region of the k-th camera fails in the
\* constructor, then at the re-raise the regions of the cameras before it are
\* closed and unlinked and every capture opened so far is released, the one
\* opened for camera k itself included.
C11_PartialInitReleased ==
  \A p \in Pids :
    InitFailed(p) =>
      /\ RegionsReleased(p)
      /\ \A i \in DOMAIN video_captures[p] :
           video_captures[p][i].opened => video_captures[p][i].released
      /\ local_capture[p].opened => local_capture[p].released

\* the step in which release_resources runs in the finally clause
CleanupStep(p) == pc[p] = "cleanup" /\ pc'[p] # "cleanup"

\* C12: delete_lock_file never leaves with an exception and is idempotent: on
\* an absent file it changes nothing, a second call after a call changes
\* nothing more (after a successful removal whatever the second one meets),
\* a removal that fails for another reason leaves the file and is swallowed,
\* and the caller goes on: the finally clause ends with start_service_loop
\* returning and the cause of the termination unchanged.
C12_DeleteLockIdempotent ==
  /\ [](\A rmFails \in BOOLEAN :
          LET once == delete_lock_file(lockFile, rmFails)
          IN /\ ~delete_lock_file_raises(lockFile, rmFails)
             /\ ~delete_lock_file_raises(once, rmFails)
             /\ ~lockFile.exists => once = lockFile
             /\ delete_lock_file(once, rmFails) = once
             /\ rmFails /\ lockFile.exists => once = lockFile
             /\ \A again \in BOOLEAN :
                  /\ ~delete_lock_file_raises(delete_lock_file(lockFile, FALSE), again)
                  /\ delete_lock_file(delete_lock_file(lockFile, FALSE), again)
                       = delete_lock_file(lockFile, FALSE))
  /\ [][\A p \in Pids :
          CleanupStep(p) =>
            /\ pc'[p] = "done"
            /\ cause'[p] = cause[p]
            /\ cleanupLog'[p].rm_tried
            /\ lockFile' = IF cleanupLog'[p].rm_failed THEN lockFile ELSE NoFile]_vars

\* the removal failed in the finally clause and start_service_loop returned
C12_Witness ==
  \E p \in Pids :
    /\ pc[p] = "done"
    /\ lockWritten[p]
    /\ cleanupLog[p].rm_failed
    /\ lockFile = FileOf(ToStr(p))

\* the step in which launch_as_background_process calls Popen
SpawnStep(p) == pc[p] = "spawn" /\ pc'[p] # "spawn"

\* the processes that come into existence in a step
Started == {q \in Pids : pc[q] = "off" /\ pc'[q] # "off"}

\* C13 as stated: a finished launch_as_background_process has spawned nothing
\* when its check said a service is running, and exactly one instance
\* otherwise.
C13_Original ==
  \A p \in Pids :
    (chk[p].done /\ pc[p] = "done") =>
      chk[p].spawned = (IF chk[p].result THEN 0 ELSE 1)

\* C13, amended: when the check is true the launch returns at once, spawning
\* nothing; otherwise it calls Popen once, which starts one detached instance
\* with the verb run or raises and starts none, and returns without waiting.
\* Neither step changes the lock file or a frame region.
C13_LaunchSpawnsAtMostOnce ==
  /\ [](\A p \in Pids :
          chk[p].done =>
            /\ chk[p].spawned \in {0, 1}
            /\ chk[p].result => (chk[p].spawned = 0 /\ pc[p] = "done")
            /\ ~chk[p].result => pc[p] \in {"spawn", "done"}
            /\ pc[p] = "spawn" => chk[p].spawned = 0)
  /\ [][\A p \in Pids :
          /\ CheckStep(p) =>
               /\ lockFile' = lockFile
               /\ shm' = shm
               /\ Started = {}
               /\ pc'[p] = (IF chk'[p].result THEN "done" ELSE "spawn")
          /\ SpawnStep(p) =>
               /\ lockFile' = lockFile
               /\ shm' = shm
               /\ pc'[p] = "done"
               /\ Cardinality(Started) = chk'[p].spawned
               /\ \A q \in Started : argv'[q] = "run" /\ pc'[q] = "init"]_vars

\* the launch has returned while the instance it spawned has not yet run
C13_Witness ==
  \E p \in Pids, q \in Pids :
    /\ pc[p] = "done"
    /\ chk[p].done
    /\ ~chk[p].result
    /\ chk[p].spawned = 1
    /\ argv[q] = "run"
    /\ pc[q] = "init"
    /\ video_captures[q] = << >>

\* a step of the /lock handler
LockRequestStep(p) == pc[p] = "serving" /\ req'[p] # req[p]

\* C14: every answer of /lock is a success and is either lock_exists false
\* with lock_pid null or lock_exists true with lock_pid the content of the
\* file, and no step of the handler changes the lock file, whatever the
\* watchdog processes do to the lock file in between.
C14_LockStatusConsistent ==
  /\ [](\A p \in Pids :
          req[p].response.status # 0 =>
            /\ req[p].response.status = 200
            /\ req[p].response.lock_exists <=> req[p].response.has_pid)
  /\ [][\A p \in Pids : LockRequestStep(p) => lockFile' = lockFile]_vars

\* the frame regions process p has created and not unlinked
RegionsOf(p) == {n \in CameraIds : shm[n].exists /\ shm[n].owner = p}

\* C15: frame regions exist only during the lifetime of a watchdog loop, so a
\* process started with the verb api or launch or an unrecognized verb never
\* has a frame region, neither while it runs nor when it has finished, and
\* with an empty camera list no region is ever created.
C15_RegionsOnlyInLoop ==
  \A p \in Pids :
    /\ argv[p] \in {"api", "launch", "bogus"} => RegionsOf(p) = {}
    /\ cfg[p].camera_ids = << >> => RegionsOf(p) = {}

\* C16: on the tick on which the grace limit is reached the loop leaves for
\* the finally clause without that tick's capture and sleep: no read has
\* been made and no slot written since the last sleep, the last observation
\* is not "present", and the only step that follows is release_resources,
\* which releases captures, closes and unlinks regions and deletes the lock
\* file, and writes no frame.
C16_GraceStopSkipsCapture ==
  /\ [](\A p \in Pids :
          cause[p] = "grace" =>
            /\ pc[p] \in {"cleanup", "done"}
            /\ lastObs[p] \in {"absent", "error"}
            /\ lastRead[p] = << >>
            /\ lastNorm[p] = << >>)
  /\ [][\A p \in Pids :
          /\ (TickStep(p) /\ cause'[p] = "grace") =>
               /\ pc'[p] = "cleanup"
               /\ shm' = shm
               /\ lockFile' = lockFile
               /\ video_captures' = video_captures
               /\ steps'[p] = steps[p] \cup {"query"}
          /\ (cause[p] = "grace" /\ pc'[p] # pc[p]) =>
               /\ pc[p] = "cleanup" /\ pc'[p] = "done"
               /\ cleanupLog'[p].ran
               /\ steps'[p] = steps[p]
               /\ elapsed_missing_time'[p] = elapsed_missing_time[p]
               /\ \A n \in CameraIds : shm'[n] \in {shm[n], NoRegion}]_vars

\* the loop has stopped on the grace limit after an earlier tick wrote a frame
C16_Witness ==
  \E p \in Pids :
    /\ cause[p] = "grace"
    /\ pc[p] = "cleanup"
    /\ "capture" \in steps[p]
    /\ \E n \in RegionsOf(p) : shm[n].data # 0

\* C17: when release_resources has run, whichever of its calls failed, every
\* cleanup call has been attempted: release() on every capture, close() and
\* unlink() on every region, and the deletion of the lock file; and it has
\* returned to its caller, which ends with the cause it had.
C17_EveryCleanupStepAttempted ==
  \A p \in Pids :
    cleanupLog[p].ran =>
      /\ cleanupLog[p].release_tried = DOMAIN video_captures[p]
      /\ cleanupLog[p].close_tried = DOMAIN shared_memory_blocks[p]
      /\ cleanupLog[p].unlink_tried = DOMAIN shared_memory_blocks[p]
      /\ cleanupLog[p].rm_tried
      /\ pc[p] = (IF cause[p] = "init_error" THEN "raised" ELSE "done")

\* the loop has ended and release_resources has run
Stopped(p) == pc[p] \in {"cleanup", "done"}

\* C18 as stated, in the form a finite run refutes: when the loop has stopped
\* on the grace limit and start_service_loop has returned, the lock file is
\* removed.
C18_Original ==
  \A p \in Pids :
    (pc[p] = "done" /\ cause[p] = "grace") => ~lockFile.exists

\* C18, amended: if the loop is entered with check_interval > 0, no
\* interruption occurs and from some tick on no observation is "present",
\* then the loop is eventually stopped by the grace limit, start_service_loop
\* returns and the lock file is removed unless its removal failed; and the
\* loop is stopped only by an interruption, a fault, or the grace limit
\* reached on a tick whose observation was not "present".
C18_GraceTermination ==
  /\ [](\A p \in Pids :
          Stopped(p) =>
            /\ cause[p] \in {"grace", "interrupt", "fault"}
            /\ cause[p] = "grace" => lastObs[p] \in {"absent", "error"}
            /\ cause[p] = "fault" => cfg[p].check_interval < 0)
  /\ \A p \in Pids :
       ( /\ <>Running(p)
         /\ [](Running(p) => cfg[p].check_interval > 0)
         /\ [](cause[p] # "interrupt")
         /\ <>[](lastObs[p] # "present") )
       => <>( /\ pc[p] = "done"
              /\ cause[p] = "grace"
              /\ ~lockFile.exists \/ cleanupLog[p].rm_failed )

\* the loop has been stopped by the grace limit and the lock file is removed
C18_Witness ==
  \E p \in Pids :
    /\ pc[p] = "done"
    /\ cause[p] = "grace"
    /\ lockWritten[p]
    /\ cfg[p].check_interval > 0
    /\ absentRun[p] > 1
    /\ ~lockFile.exists

\* C19: from the moment an instance has written its PID until its own cleanup
\* the lock file is not deleted by anybody else: while the instance is in its
\* loop the lock file exists, whatever other processes do (a CameraService
\* whose construction fails, a second instance starting or exiting, the
\* launcher).
C19_LockHeldWhileRunning ==
  \A p \in Pids :
    (Running(p) /\ lockWritten[p]) => lockFile.exists

\* C20: when start_service_loop has ended because the lock file could not
\* be written, the regions and captures created by the constructor have been
\* released: every region is closed and unlinked and every opened capture is
\* released.
C20_LockFailureReleasesRegions ==
  \A p \in Pids :
    (pc[p] = "raised" /\ cause[p] = "lock_write_error") =>
      /\ RegionsReleased(p)
      /\ RegionsOf(p) = {}
      /\ \A i \in DOMAIN video_captures[p] :
           video_captures[p][i].opened => video_captures[p][i].released

=============================================================================
